---- MODULE Spec2Model ----
(***************************************************************************)
(* Ledger, submission and withdrawal services of onit-backend, run by      *)
(* concurrent request handlers against one PostgreSQL database (READ       *)
(* COMMITTED): every statement sees the committed rows plus the writes of   *)
(* its own transaction, row locks are held until COMMIT or ROLLBACK.        *)
(* Money is counted in hundredths.  A handler is cut into steps at the      *)
(* statements that wait for a row lock or read rows other transactions can  *)
(* change; BEGIN is taken together with the first statement.                *)
(***************************************************************************)
EXTENDS Integers, Sequences, FiniteSets, TLC

\* ---------------------------------------------------------------- bounds
MaxOps == 4            \* service calls started in one run
MaxSubmissions == 2    \* rows of table submissions
MaxWithdrawals == 4    \* rows of table withdrawals
MaxDay == 9            \* last day the clock reaches

Procs == {1, 2}                 \* pooled connections, one transaction each
Users == {"u1", "u2"}
Members == {"u1"}               \* users who submit proofs and request withdrawals
Ads == {"a1"}
Admin == "admin"
AdminIds == {Admin, "nobody"}   \* adminId arguments: the admin, and an id no row of users has
EntryAmounts == {-3, -1, 2}     \* amounts passed to createEntry by its direct callers
WithdrawalAmounts == {1, 2}     \* amounts passed to requestWithdrawal

\* ------------------------------------------------------ program constants
WITHDRAWALS_PER_WEEK == 3
SUBMISSIONS_PER_AD_PER_DAY == 1
WEEK == 7
DAY == 1
Tolerance == 1         \* 0.01, in hundredths

\* ads: reference data of the ad catalog
payout_per_view == [a \in Ads |-> 2]
max_views == [a \in Ads |-> 0]          \* 0 stands for NULL: no cap

VARIABLES
    now,            \* clock, in days
    lockStmt,       \* how the server treats the lock statement of createEntry
    engagementStmt, \* how the server treats the INSERT INTO ad_engagements of submitProof
    balance,        \* users.balance
    is_blocked,     \* users.is_blocked
    wallet_ledger,  \* committed rows of wallet_ledger, in insertion order
    submissions,    \* committed rows of submissions; the id is the position
    withdrawals,    \* committed rows of withdrawals; the id is the position
    total_views,    \* ads.total_views
    admin_logs,     \* committed rows of admin_logs
    ad_engagements, \* committed rows of ad_engagements, as (user, ad) pairs
    tx,             \* per connection: position in the handler, locals, uncommitted writes
    last,           \* what the call that finished in the latest step returned or threw
    nOps            \* calls started so far

dbvars == <<balance, is_blocked, wallet_ledger, submissions, withdrawals,
            total_views, admin_logs, ad_engagements>>
vars == <<now, lockStmt, engagementStmt, balance, is_blocked, wallet_ledger, submissions,
          withdrawals, total_views, admin_logs, ad_engagements, tx, last, nOps>>

\* ------------------------------------------------------------- helpers
NoRow == [status |-> "none"]
NULL == -1                      \* a balance_after left unset; no balance is negative
NoRes == [op |-> "none", id |-> 0, user |-> "", amount |-> 0, outcome |-> "none",
          available |-> 0, required |-> 0, payoutAmount |-> 0]

IdleTx ==
    [pc |-> "idle", op |-> "none", id |-> 0, user |-> "", ad |-> "", amount |-> 0,
     throws |-> FALSE, started |-> 0, admin |-> "",
     ceUser |-> "", ceType |-> "", ceAmount |-> 0, ceRefType |-> "", ceRefId |-> 0,
     ret |-> "", cur |-> 0, row |-> NoRow, payout |-> 0,
     locks |-> {},
     wEntry |-> <<>>, wBalUser |-> "", wBal |-> 0,
     wSub |-> NoRow, wWd |-> NoRow, newSub |-> <<>>, newWd |-> <<>>,
     wViews |-> "", wLogs |-> <<>>, wEng |-> {}, wBlock |-> ""]

RECURSIVE SumAmounts(_)
SumAmounts(s) == IF s = <<>> THEN 0 ELSE Head(s).amount + SumAmounts(Tail(s))

Abs(x) == IF x < 0 THEN -x ELSE x

\* the connection holding the row lock, 0 when the row is unlocked
Holder(rowName) ==
    IF \E p \in Procs : rowName \in tx[p].locks
    THEN CHOOSE p \in Procs : rowName \in tx[p].locks
    ELSE 0

LockFree(p, rowName) == Holder(rowName) \in {0, p}

\* ------------------------------------------------- what a statement sees
\* users.balance as seen by a statement of connection p
ViewBalance(p, u) == IF tx[p].wBalUser = u THEN tx[p].wBal ELSE balance[u]

\* submissions row id as seen by connection p (NoRow when absent)
ViewSubmission(p, id) ==
    IF tx[p].wSub # NoRow /\ tx[p].op \in {"approveSubmission", "rejectSubmission"}
       /\ tx[p].id = id
    THEN tx[p].wSub
    ELSE IF id \in 1..Len(submissions) THEN submissions[id] ELSE NoRow

ViewWithdrawal(p, id) ==
    IF tx[p].wWd # NoRow /\ tx[p].id = id
    THEN tx[p].wWd
    ELSE IF id \in 1..Len(withdrawals) THEN withdrawals[id] ELSE NoRow

\* ------------------------------------------------------ storage triggers
\* the trigger without its UPDATE of users.balance
update_user_balance_noop(bal, amount) ==
    IF bal + amount < 0
    THEN [ok |-> FALSE, balance |-> bal]
    ELSE [ok |-> TRUE, balance |-> bal]

\* the trigger without its negative-balance guard and without the CHECK constraint
update_user_balance_unchecked(bal, amount) == [ok |-> TRUE, balance |-> bal + amount]

\* trigger update_balance_on_ledger_insert with constraint balance_non_negative:
\* the balance after inserting a ledger row of this amount, or a raised exception
update_user_balance(bal, amount) ==
    IF bal + amount < 0
    THEN [ok |-> FALSE, balance |-> bal]
    ELSE [ok |-> TRUE, balance |-> bal + amount]

\* the triggers dropped: UPDATE and DELETE go through
prevent_ledger_modification_off == FALSE

\* triggers prevent_ledger_updates / prevent_ledger_deletes, BEFORE UPDATE and
\* BEFORE DELETE on wallet_ledger: TRUE when the statement is refused (RAISE EXCEPTION)
prevent_ledger_modification == TRUE

\* the trigger without its first IF: pending may move anywhere
validate_submission_status_transition_skip(old, new) ==
    /\ ~(old = "under_review" /\ new \notin {"approved", "rejected", "under_review"})
    /\ old \notin {"approved", "rejected"}

\* trigger validate_status_transition on submissions: TRUE when the UPDATE passes
validate_submission_status_transition(old, new) ==
    /\ ~(old = "pending" /\ new \notin {"under_review", "pending"})
    /\ ~(old = "under_review" /\ new \notin {"approved", "rejected", "under_review"})
    /\ old \notin {"approved", "rejected"}

\* the trigger without its last IF: a finalized withdrawal may be changed
validate_withdrawal_status_transition_open(old, new) ==
    /\ ~(old = "pending" /\ new \notin {"processing", "cancelled", "pending"})
    /\ ~(old = "processing" /\ new \notin {"completed", "failed", "processing"})

\* trigger validate_withdrawal_transition on withdrawals
validate_withdrawal_status_transition(old, new) ==
    /\ ~(old = "pending" /\ new \notin {"processing", "cancelled", "pending"})
    /\ ~(old = "processing" /\ new \notin {"completed", "failed", "processing"})
    /\ old \notin {"completed", "failed", "cancelled"}

\* trigger validate_amount_before_insert on withdrawals: TRUE when the INSERT passes
validate_withdrawal_amount(amount, user_balance) == ~(amount > user_balance)

\* ------------------------------------------------------- audit functions
\* the sum taken without the WHERE user_id = ... filter
calculate_balance_from_ledger_all(u) == SumAmounts(wallet_ledger)

calculate_balance_from_ledger(u) ==
    SumAmounts(SelectSeq(wallet_ledger, LAMBDA e : e.user_id = u))

audit_all_balances ==
    {[user_id |-> u, stored_balance |-> balance[u],
      ledger_balance |-> calculate_balance_from_ledger(u),
      difference |-> balance[u] - calculate_balance_from_ledger(u)] :
        u \in {v \in Users : balance[v] # calculate_balance_from_ledger(v)}}

findBalanceMismatches ==
    {[userId |-> r.user_id, storedBalance |-> r.stored_balance,
      ledgerBalance |-> r.ledger_balance, difference |-> r.difference] :
        r \in audit_all_balances}

\* ------------------------------------------------------------- Init
Init ==
    /\ now = 0
    /\ lockStmt \in {"rejected", "accepted"}
    /\ engagementStmt \in {"rejected", "accepted"}
    \* the repository as it stands rejects both statements; a run with only the
    \* lock statement accepted is a run with both accepted in which every
    \* submitProof call is replaced by its failure, and is left out
    /\ lockStmt = "accepted" => engagementStmt = "accepted"
    /\ balance = [u \in Users |-> 0]
    /\ is_blocked = [u \in Users |-> FALSE]
    /\ wallet_ledger = <<>>
    /\ submissions = <<>>
    /\ withdrawals = <<>>
    /\ total_views = [a \in Ads |-> 0]
    /\ admin_logs = <<>>
    /\ ad_engagements = {}
    /\ tx = [p \in Procs |-> IdleTx]
    /\ last = NoRes
    /\ nOps = 0

\* ------------------------------------------- db.transaction: begin and end
\* pool.connect and BEGIN of a new call on the first idle connection
Starts(p) ==
    /\ tx[p].pc = "idle"
    /\ \A q \in Procs : q < p => tx[q].pc # "idle"
    /\ nOps < MaxOps
    /\ nOps' = nOps + 1

\* the transaction of connection p stands at this statement
At(p, pc) ==
    /\ tx[p].pc = pc
    /\ nOps' = nOps

\* the transaction record of a call that begins; NOW() is the start of the transaction
Call(op, fields) == fields @@ [op |-> op, started |-> now] @@ IdleTx

\* the catch block without its ROLLBACK: the ledger row and the balance written
\* by the transaction stay
Abort_noRollback(p, t, outcome, available, required) ==
    /\ tx' = [tx EXCEPT ![p] = IdleTx]
    /\ last' = [op |-> t.op, id |-> t.id, user |-> t.user, amount |-> t.amount,
                outcome |-> outcome, available |-> available, required |-> required,
                payoutAmount |-> 0]
    /\ wallet_ledger' = wallet_ledger \o t.wEntry
    /\ balance' = IF t.wBalUser = "" THEN balance
                  ELSE [balance EXCEPT ![t.wBalUser] = t.wBal]
    /\ UNCHANGED <<now, lockStmt, engagementStmt, is_blocked, submissions, withdrawals, total_views,
                   admin_logs, ad_engagements>>

\* the call of record t threw, its UPDATEs of a status having been issued on
\* the pool and not on the connection of the transaction
Abort_statusKept(p, t, outcome, available, required) ==
    /\ tx' = [tx EXCEPT ![p] = IdleTx]
    /\ last' = [op |-> t.op, id |-> t.id, user |-> t.user, amount |-> t.amount,
                outcome |-> outcome, available |-> available, required |-> required,
                payoutAmount |-> 0]
    /\ submissions' = IF t.wSub = NoRow THEN submissions
                      ELSE [submissions EXCEPT ![t.id] = t.wSub]
    /\ withdrawals' = IF t.wWd = NoRow THEN withdrawals
                      ELSE [withdrawals EXCEPT ![t.id] = t.wWd]
    /\ UNCHANGED <<now, lockStmt, engagementStmt, balance, is_blocked, wallet_ledger,
                   total_views, admin_logs, ad_engagements>>

\* the call of record t threw: ROLLBACK, release the connection, rethrow
Abort(p, t, outcome, available, required) ==
    /\ tx' = [tx EXCEPT ![p] = IdleTx]
    /\ last' = [op |-> t.op, id |-> t.id, user |-> t.user, amount |-> t.amount,
                outcome |-> outcome, available |-> available, required |-> required,
                payoutAmount |-> 0]
    /\ UNCHANGED <<now, lockStmt, engagementStmt, dbvars>>

\* a step of the callback that neither commits nor throws
Continue(p, t, fields) ==
    /\ tx' = [tx EXCEPT ![p] = fields @@ t]
    /\ last' = NoRes
    /\ UNCHANGED <<now, lockStmt, engagementStmt, dbvars>>

ReplaceAt(s, i, row) == [s EXCEPT ![i] = row]

\* COMMIT: the writes of the transaction become the committed rows, locks are released
COMMIT(p) ==
    /\ At(p, "commit")
    /\ wallet_ledger' = wallet_ledger \o tx[p].wEntry
    /\ balance' = IF tx[p].wBalUser = "" THEN balance
                  ELSE [balance EXCEPT ![tx[p].wBalUser] = tx[p].wBal]
    /\ submissions' = (IF tx[p].wSub = NoRow THEN submissions
                       ELSE ReplaceAt(submissions, tx[p].id, tx[p].wSub)) \o tx[p].newSub
    /\ withdrawals' = (IF tx[p].wWd = NoRow THEN withdrawals
                       ELSE ReplaceAt(withdrawals, tx[p].id, tx[p].wWd)) \o tx[p].newWd
    /\ total_views' = IF tx[p].wViews = "" THEN total_views
                      ELSE [total_views EXCEPT ![tx[p].wViews] = @ + 1]
    /\ admin_logs' = admin_logs \o tx[p].wLogs
    /\ ad_engagements' = ad_engagements \cup tx[p].wEng
    /\ is_blocked' = IF tx[p].wBlock = "" THEN is_blocked
                     ELSE [is_blocked EXCEPT ![tx[p].user] = (tx[p].wBlock = "block")]
    /\ tx' = [tx EXCEPT ![p] = IdleTx]
    /\ last' = [op |-> tx[p].op,
                id |-> IF tx[p].newSub # <<>> THEN Len(submissions) + 1
                       ELSE IF tx[p].newWd # <<>> THEN Len(withdrawals) + 1
                       ELSE tx[p].id,
                user |-> tx[p].user, amount |-> tx[p].amount, outcome |-> "ok",
                available |-> 0, required |-> 0, payoutAmount |-> tx[p].payout]
    /\ UNCHANGED <<now, lockStmt, engagementStmt>>

\* ============================================================ LedgerService
\* createEntry locking every row of users, its SELECT ... FOR UPDATE lacking
\* the WHERE clause
LockAndCheck_allRows(p, t) ==
    IF lockStmt = "rejected"
    THEN Abort(p, t, "DatabaseError", 0, 0)
    ELSE /\ \A u \in Users : LockFree(p, <<"user", u>>)
         /\ LET currentBalance == ViewBalance(p, t.ceUser)
                amount == t.ceAmount
            IN IF amount < 0 /\ currentBalance + amount < 0
               THEN Abort(p, t, "InsufficientBalanceError", currentBalance, Abs(amount))
               ELSE Continue(p, t, [pc |-> "ce_insert", cur |-> currentBalance,
                                    locks |-> t.locks \cup {<<"user", u>> : u \in Users}])

\* createEntry, first statement: SELECT id, balance, FROM users ... FOR UPDATE.
\* The text carries a comma before FROM, which PostgreSQL rejects; createEntry
\* wraps the syntax error in DatabaseError (lockStmt = "rejected").  With the
\* comma dropped (lockStmt = "accepted") the statement waits for the row lock,
\* reads the balance under it, and the overdraft check follows.
LockAndCheck(p, t) ==
    IF lockStmt = "rejected"
    THEN Abort(p, t, "DatabaseError", 0, 0)
    ELSE /\ LockFree(p, <<"user", t.ceUser>>)
         /\ LET currentBalance == ViewBalance(p, t.ceUser)
                amount == t.ceAmount
            IN IF amount < 0 /\ currentBalance + amount < 0
               THEN Abort(p, t, "InsufficientBalanceError", currentBalance, Abs(amount))
               ELSE Continue(p, t, [pc |-> "ce_insert", cur |-> currentBalance,
                                    locks |-> t.locks \cup {<<"user", t.ceUser>>}])

\* createEntry called inside the transaction of a handler
createEntry_lock(p) ==
    /\ At(p, "ce_lock")
    /\ LockAndCheck(p, tx[p])

\* createEntry writing the balance it read, not the balance after the entry
createEntry_insert_before(p) ==
    /\ At(p, "ce_insert")
    /\ LockFree(p, <<"user", tx[p].ceUser>>)
    /\ LET u == tx[p].ceUser
           expectedBalance == tx[p].cur + tx[p].ceAmount
           entry == [user_id |-> u, type |-> tx[p].ceType, amount |-> tx[p].ceAmount,
                     balance_after |-> tx[p].cur,
                     reference_type |-> tx[p].ceRefType, reference_id |-> tx[p].ceRefId]
           trig == update_user_balance(ViewBalance(p, u), tx[p].ceAmount)
           newBalance == trig.balance
       IN IF ~trig.ok
          THEN Abort(p, tx[p], "DatabaseError", 0, 0)
          ELSE IF Abs(newBalance - expectedBalance) > Tolerance
          THEN Abort(p, tx[p], "LedgerMismatchError", 0, 0)
          ELSE Continue(p, tx[p], [pc |-> tx[p].ret,
                            wEntry |-> Append(tx[p].wEntry, entry),
                            wBalUser |-> u, wBal |-> newBalance,
                            locks |-> tx[p].locks \cup {<<"user", u>>}])

\* createEntry: INSERT INTO wallet_ledger (the AFTER INSERT trigger adds the
\* amount to the balance of the user row), then the re-read of the balance and
\* its comparison with the expected one
createEntry_insert(p) ==
    /\ At(p, "ce_insert")
    /\ LockFree(p, <<"user", tx[p].ceUser>>)
    /\ LET u == tx[p].ceUser
           expectedBalance == tx[p].cur + tx[p].ceAmount
           entry == [user_id |-> u, type |-> tx[p].ceType, amount |-> tx[p].ceAmount,
                     balance_after |-> expectedBalance,
                     reference_type |-> tx[p].ceRefType, reference_id |-> tx[p].ceRefId]
           trig == update_user_balance(ViewBalance(p, u), tx[p].ceAmount)
           newBalance == trig.balance
       IN IF ~trig.ok
          THEN Abort(p, tx[p], "DatabaseError", 0, 0)
          ELSE IF Abs(newBalance - expectedBalance) > Tolerance
          THEN Abort(p, tx[p], "LedgerMismatchError", 0, 0)
          ELSE Continue(p, tx[p], [pc |-> tx[p].ret,
                            wEntry |-> Append(tx[p].wEntry, entry),
                            wBalUser |-> u, wBal |-> newBalance,
                            locks |-> tx[p].locks \cup {<<"user", u>>}])

TRANSACTION_TYPES == {"ad_payout", "withdrawal", "refund", "bonus", "adjustment"}
REFERENCE_TYPES == {"submission", "withdrawal", "admin_action", "system"}

\* the parameters createEntry accepts: userId present, type a transaction
\* type, amount not zero, referenceType a reference type, referenceId present
validateEntryParams(e) ==
    /\ e.userId # ""
    /\ e.type \in TRANSACTION_TYPES
    /\ e.amount # 0
    /\ e.referenceType \in REFERENCE_TYPES
    /\ e.referenceId # NULL

\* the parameters of a system entry of the amount for the user
SystemEntry(u, amount) ==
    [userId |-> u, type |-> IF amount > 0 THEN "bonus" ELSE "withdrawal",
     amount |-> amount, referenceType |-> "system", referenceId |-> 0]

\* createEntry without the validation of its parameters
createEntry_unvalidated(p, e, throws) ==
    /\ Starts(p)
    /\ LockAndCheck(p, Call("createEntry",
          [user |-> e.userId, amount |-> e.amount, throws |-> throws,
           ceUser |-> e.userId, ceAmount |-> e.amount,
           ceType |-> e.type,
           ceRefType |-> e.referenceType, ceRefId |-> e.referenceId,
           ret |-> IF throws THEN "throw" ELSE "commit"]))

\* db.transaction(tx => ledgerService.createEntry(tx, ...)), as the callers in
\* the tests run it; with throws the callback throws after createEntry returned.
\* The parameters are validated before the first statement.
createEntry(p, e, throws) ==
    /\ Starts(p)
    /\ LET t == Call("createEntry",
                  [user |-> e.userId, amount |-> e.amount, throws |-> throws,
                   ceUser |-> e.userId, ceAmount |-> e.amount,
                   ceType |-> e.type,
                   ceRefType |-> e.referenceType, ceRefId |-> e.referenceId,
                   ret |-> IF throws THEN "throw" ELSE "commit"])
       IN IF ~validateEntryParams(e)
          THEN Abort(p, t, "ValidationError", 0, 0)
          ELSE LockAndCheck(p, t)

\* the callback throws an error of its own after its writes
Throw(p) ==
    /\ At(p, "throw")
    /\ Abort(p, tx[p], "Error", 0, 0)

\* ======================================================= SubmissionService
\* submitProof(userId, adId, proofUrl): BEGIN; the ad is read and checked
\* against its view cap
submitProof(p, u, a) ==
    /\ Starts(p)
    /\ Len(submissions) + Cardinality({q \in Procs : tx[q].op = "submitProof"})
          < MaxSubmissions
    /\ LET t == Call("submitProof", [user |-> u, ad |-> a])
       IN IF max_views[a] # 0 /\ total_views[a] >= max_views[a]
          THEN Abort(p, t, "ValidationError", 0, 0)
          ELSE Continue(p, t, [pc |-> "sp_rate"])

\* submitProof: submissions of this user for this ad in the last 24 hours
submitProof_rate(p) ==
    /\ At(p, "sp_rate")
    /\ LET count == Cardinality({i \in 1..Len(submissions) :
                        /\ submissions[i].user_id = tx[p].user
                        /\ submissions[i].ad_id = tx[p].ad
                        /\ submissions[i].created_at > tx[p].started - DAY})
       IN IF count >= SUBMISSIONS_PER_AD_PER_DAY
          THEN Abort(p, tx[p], "RateLimitError", 0, 0)
          ELSE Continue(p, tx[p], [pc |-> "sp_existing"])

\* submitProof: a pending or under_review submission of this user for this ad
submitProof_existing(p) ==
    /\ At(p, "sp_existing")
    /\ IF \E i \in 1..Len(submissions) :
             /\ submissions[i].user_id = tx[p].user
             /\ submissions[i].ad_id = tx[p].ad
             /\ submissions[i].status \in {"pending", "under_review"}
       THEN Abort(p, tx[p], "ConflictError", 0, 0)
       ELSE Continue(p, tx[p], [pc |-> "sp_insert"])

\* submitProof: INSERT INTO ad_engagements (id, user_id, ad_id) ... ON CONFLICT
\* (user_id, ad_id) DO NOTHING, then INSERT INTO submissions.  The migrations
\* create a plain index on (user_id, ad_id) and leave engagement_type NOT NULL
\* without a default, so PostgreSQL rejects the first statement and the error
\* leaves the callback (engagementStmt = "rejected").  With a unique index and a
\* value for the column (engagementStmt = "accepted") the statement waits for an
\* uncommitted row with the same key and inserts the row when there is none.
submitProof_insert(p) ==
    /\ At(p, "sp_insert")
    /\ IF engagementStmt = "rejected"
       THEN Abort(p, tx[p], "PgError", 0, 0)
       ELSE /\ LockFree(p, <<"engagement", tx[p].user, tx[p].ad>>)
            /\ LET key == <<tx[p].user, tx[p].ad>>
                   fresh == key \notin ad_engagements
               IN Continue(p, tx[p], [pc |-> "commit",
                       wEng |-> IF fresh THEN {key} ELSE {},
                       locks |-> IF fresh
                                 THEN tx[p].locks \cup {<<"engagement", tx[p].user, tx[p].ad>>}
                                 ELSE tx[p].locks,
                       newSub |-> <<[user_id |-> tx[p].user, ad_id |-> tx[p].ad,
                                     status |-> "pending", rejection_reason |-> "",
                                     reviewed_by |-> "", reviewed_at |-> NULL,
                                     created_at |-> tx[p].started]>>])

\* ============================================================ AdminService
\* _logAdminAction: the row inserted into admin_logs
LogRow(action, resource_type, resource_id) ==
    [admin_id |-> Admin, action |-> action, resource_type |-> resource_type,
     resource_id |-> resource_id]

\* approveSubmission paying the payout of the ad less a fee of 0.01
approveSubmission_fee(p, id, adminId) ==
    /\ Starts(p)
    /\ LockFree(p, <<"submission", id>>)
    /\ LET t == Call("approveSubmission", [id |-> id, admin |-> adminId])
           submission == ViewSubmission(p, id)
       IN IF submission = NoRow THEN Abort(p, t, "NotFoundError", 0, 0)
          ELSE IF submission.status \in {"approved", "rejected"}
          THEN Abort(p, t, "InvalidStateError", 0, 0)
          ELSE IF submission.status = "pending"
                  /\ ~validate_submission_status_transition("pending", "under_review")
          THEN Abort(p, t, "PgError", 0, 0)
          ELSE LET payoutAmount == payout_per_view[submission.ad_id]
               IN Continue(p, t,
                      [pc |-> "ce_lock", ret |-> "ap_update",
                       user |-> submission.user_id, ad |-> submission.ad_id,
                       payout |-> payoutAmount,
                       locks |-> {<<"submission", id>>},
                       wSub |-> IF submission.status = "pending"
                                THEN [submission EXCEPT !.status = "under_review"]
                                ELSE NoRow,
                       ceUser |-> submission.user_id, ceType |-> "ad_payout",
                       ceAmount |-> payoutAmount - 1, ceRefType |-> "submission",
                       ceRefId |-> id])

\* approveSubmission(submissionId, adminId): BEGIN, SELECT ... FOR UPDATE, state
\* validation, pending -> under_review, the payout of the ad is read and
\* createEntry is called with it
approveSubmission(p, id, adminId) ==
    /\ Starts(p)
    /\ LockFree(p, <<"submission", id>>)
    /\ LET t == Call("approveSubmission", [id |-> id, admin |-> adminId])
           submission == ViewSubmission(p, id)
       IN IF submission = NoRow THEN Abort(p, t, "NotFoundError", 0, 0)
          ELSE IF submission.status \in {"approved", "rejected"}
          THEN Abort(p, t, "InvalidStateError", 0, 0)
          ELSE IF submission.status = "pending"
                  /\ ~validate_submission_status_transition("pending", "under_review")
          THEN Abort(p, t, "PgError", 0, 0)
          ELSE LET payoutAmount == payout_per_view[submission.ad_id]
               IN Continue(p, t,
                      [pc |-> "ce_lock", ret |-> "ap_update",
                       user |-> submission.user_id, ad |-> submission.ad_id,
                       payout |-> payoutAmount,
                       locks |-> {<<"submission", id>>},
                       wSub |-> IF submission.status = "pending"
                                THEN [submission EXCEPT !.status = "under_review"]
                                ELSE NoRow,
                       ceUser |-> submission.user_id, ceType |-> "ad_payout",
                       ceAmount |-> payoutAmount, ceRefType |-> "submission",
                       ceRefId |-> id])

\* approveSubmission without its UPDATE of the status
approveSubmission_update_review(p) ==
    /\ At(p, "ap_update")
    /\ LockFree(p, <<"ad", tx[p].ad>>)
    /\ Continue(p, tx[p], [pc |-> "commit",
             wViews |-> tx[p].ad,
             locks |-> tx[p].locks \cup {<<"ad", tx[p].ad>>},
             wLogs |-> Append(tx[p].wLogs,
                          LogRow("approve_submission", "submission", tx[p].id))])

\* approveSubmission without its UPDATE of ads.total_views
approveSubmission_update_unviewed(p) ==
    /\ At(p, "ap_update")
    /\ LET submission == ViewSubmission(p, tx[p].id)
       IN IF ~validate_submission_status_transition(submission.status, "approved")
          THEN Abort(p, tx[p], "PgError", 0, 0)
          ELSE IF tx[p].admin # Admin
          THEN Abort(p, tx[p], "PgError", 0, 0)
          ELSE Continue(p, tx[p], [pc |-> "commit",
                   wSub |-> [submission EXCEPT !.status = "approved",
                                               !.reviewed_by = tx[p].admin,
                                               !.reviewed_at = tx[p].started],
                   wLogs |-> Append(tx[p].wLogs,
                                LogRow("approve_submission", "submission", tx[p].id))])

\* approveSubmission without its call of _logAdminAction
approveSubmission_update_unlogged(p) ==
    /\ At(p, "ap_update")
    /\ LockFree(p, <<"ad", tx[p].ad>>)
    /\ LET submission == ViewSubmission(p, tx[p].id)
       IN IF ~validate_submission_status_transition(submission.status, "approved")
          THEN Abort(p, tx[p], "PgError", 0, 0)
          ELSE IF tx[p].admin # Admin
          THEN Abort(p, tx[p], "PgError", 0, 0)
          ELSE Continue(p, tx[p], [pc |-> "commit",
                   wSub |-> [submission EXCEPT !.status = "approved",
                                               !.reviewed_by = tx[p].admin,
                                               !.reviewed_at = tx[p].started],
                   wViews |-> tx[p].ad,
                   locks |-> tx[p].locks \cup {<<"ad", tx[p].ad>>}])

\* approveSubmission: status approved, total_views + 1 (row lock on the ad), admin log
approveSubmission_update(p) ==
    /\ At(p, "ap_update")
    /\ LockFree(p, <<"ad", tx[p].ad>>)
    /\ LET submission == ViewSubmission(p, tx[p].id)
       IN IF ~validate_submission_status_transition(submission.status, "approved")
          THEN Abort(p, tx[p], "PgError", 0, 0)
          ELSE IF tx[p].admin # Admin      \* reviewed_by references users
          THEN Abort(p, tx[p], "PgError", 0, 0)
          ELSE Continue(p, tx[p], [pc |-> "commit",
                   wSub |-> [submission EXCEPT !.status = "approved",
                                               !.reviewed_by = tx[p].admin,
                                               !.reviewed_at = tx[p].started],
                   wViews |-> tx[p].ad,
                   locks |-> tx[p].locks \cup {<<"ad", tx[p].ad>>},
                   wLogs |-> Append(tx[p].wLogs,
                                LogRow("approve_submission", "submission", tx[p].id))])

\* rejectSubmission(submissionId, adminId, reason): reason check, BEGIN, lock,
\* state validation, pending -> under_review
rejectSubmission(p, id, reasonOk) ==
    /\ Starts(p)
    /\ LET t == Call("rejectSubmission", [id |-> id])
           submission == ViewSubmission(p, id)
       IN IF ~reasonOk THEN Abort(p, t, "ValidationError", 0, 0)
          ELSE /\ LockFree(p, <<"submission", id>>)
               /\ IF submission = NoRow THEN Abort(p, t, "NotFoundError", 0, 0)
                  ELSE IF submission.status \in {"approved", "rejected"}
                  THEN Abort(p, t, "InvalidStateError", 0, 0)
                  ELSE IF submission.status = "pending"
                          /\ ~validate_submission_status_transition("pending",
                                                                    "under_review")
                  THEN Abort(p, t, "PgError", 0, 0)
                  ELSE Continue(p, t, [pc |-> "rj_update", user |-> submission.user_id,
                           locks |-> {<<"submission", id>>},
                           wSub |-> IF submission.status = "pending"
                                    THEN [submission EXCEPT !.status = "under_review"]
                                    ELSE NoRow])

\* rejectSubmission taking the payout of the ad back from the user
rejectSubmission_update_clawback(p) ==
    /\ At(p, "rj_update")
    /\ LET submission == ViewSubmission(p, tx[p].id)
       IN IF ~validate_submission_status_transition(submission.status, "rejected")
          THEN Abort(p, tx[p], "PgError", 0, 0)
          ELSE Continue(p, tx[p], [pc |-> "commit",
                   wSub |-> [submission EXCEPT !.status = "rejected",
                                               !.rejection_reason = "reason",
                                               !.reviewed_by = Admin,
                                               !.reviewed_at = tx[p].started],
                   wEntry |-> <<[user_id |-> submission.user_id, type |-> "admin_adjustment",
                                 amount |-> -payout_per_view[submission.ad_id],
                                 balance_after |-> 0, reference_type |-> "submission",
                                 reference_id |-> tx[p].id]>>,
                   wLogs |-> Append(tx[p].wLogs,
                                LogRow("reject_submission", "submission", tx[p].id))])

\* rejectSubmission without its UPDATE to rejected
rejectSubmission_update_logonly(p) ==
    /\ At(p, "rj_update")
    /\ Continue(p, tx[p], [pc |-> "commit",
             wLogs |-> Append(tx[p].wLogs,
                          LogRow("reject_submission", "submission", tx[p].id))])

\* rejectSubmission storing status and reason without reviewer and review time
rejectSubmission_update_unreviewed(p) ==
    /\ At(p, "rj_update")
    /\ LET submission == ViewSubmission(p, tx[p].id)
       IN IF ~validate_submission_status_transition(submission.status, "rejected")
          THEN Abort(p, tx[p], "PgError", 0, 0)
          ELSE Continue(p, tx[p], [pc |-> "commit",
                   wSub |-> [submission EXCEPT !.status = "rejected",
                                !.rejection_reason = "reason"],
                   wLogs |-> Append(tx[p].wLogs,
                                LogRow("reject_submission", "submission", tx[p].id))])

\* rejectSubmission: status rejected with reason, reviewer and review time, admin log
rejectSubmission_update(p) ==
    /\ At(p, "rj_update")
    /\ LET submission == ViewSubmission(p, tx[p].id)
       IN IF ~validate_submission_status_transition(submission.status, "rejected")
          THEN Abort(p, tx[p], "PgError", 0, 0)
          ELSE Continue(p, tx[p], [pc |-> "commit",
                   wSub |-> [submission EXCEPT !.status = "rejected",
                                !.rejection_reason = "reason",
                                !.reviewed_by = Admin,
                                !.reviewed_at = tx[p].started],
                   wLogs |-> Append(tx[p].wLogs,
                                LogRow("reject_submission", "submission", tx[p].id))])

\* processWithdrawal(withdrawalId, adminId): BEGIN, SELECT ... FOR UPDATE, state
\* validation; createEntry is called with the negated amount
processWithdrawal(p, id, adminId) ==
    /\ Starts(p)
    /\ LockFree(p, <<"withdrawal", id>>)
    /\ LET t == Call("processWithdrawal", [id |-> id, admin |-> adminId])
           withdrawal == ViewWithdrawal(p, id)
       IN IF withdrawal = NoRow THEN Abort(p, t, "NotFoundError", 0, 0)
          ELSE IF withdrawal.status # "pending"
          THEN Abort(p, t, "InvalidStateError", 0, 0)
          ELSE Continue(p, t,
                   [pc |-> "ce_lock", ret |-> "pw_update",
                    user |-> withdrawal.user_id, amount |-> withdrawal.amount,
                    locks |-> {<<"withdrawal", id>>},
                    ceUser |-> withdrawal.user_id, ceType |-> "withdrawal",
                    ceAmount |-> -withdrawal.amount, ceRefType |-> "withdrawal",
                    ceRefId |-> id])

\* processWithdrawal: status processing, processed_by, admin log
processWithdrawal_update(p) ==
    /\ At(p, "pw_update")
    /\ LET withdrawal == ViewWithdrawal(p, tx[p].id)
       IN IF ~validate_withdrawal_status_transition(withdrawal.status, "processing")
          THEN Abort(p, tx[p], "PgError", 0, 0)
          ELSE IF tx[p].admin # Admin      \* processed_by references users
          THEN Abort(p, tx[p], "PgError", 0, 0)
          ELSE Continue(p, tx[p], [pc |-> "commit",
                   wWd |-> [withdrawal EXCEPT !.status = "processing",
                                              !.processed_by = tx[p].admin],
                   wLogs |-> Append(tx[p].wLogs,
                                LogRow("process_withdrawal", "withdrawal", tx[p].id))])

\* completeWithdrawal without its state validation
completeWithdrawal_anystate(p, id, hashOk) ==
    /\ Starts(p)
    /\ LET t == Call("completeWithdrawal", [id |-> id])
           withdrawal == ViewWithdrawal(p, id)
       IN IF ~hashOk THEN Abort(p, t, "ValidationError", 0, 0)
          ELSE /\ LockFree(p, <<"withdrawal", id>>)
               /\ IF withdrawal = NoRow THEN Abort(p, t, "NotFoundError", 0, 0)
                  ELSE IF ~validate_withdrawal_status_transition(withdrawal.status,
                                                                 "completed")
                  THEN Abort(p, t, "PgError", 0, 0)
                  ELSE Continue(p, t, [pc |-> "commit", user |-> withdrawal.user_id,
                           amount |-> withdrawal.amount,
                           locks |-> {<<"withdrawal", id>>},
                           wWd |-> [withdrawal EXCEPT !.status = "completed",
                                                      !.transaction_hash = "hash"],
                           wLogs |-> <<LogRow("complete_withdrawal", "withdrawal", id)>>])

\* completeWithdrawal(withdrawalId, adminId, transactionHash): hash check, BEGIN,
\* lock, state validation, status completed, admin log
completeWithdrawal(p, id, hashOk) ==
    /\ Starts(p)
    /\ LET t == Call("completeWithdrawal", [id |-> id])
           withdrawal == ViewWithdrawal(p, id)
       IN IF ~hashOk THEN Abort(p, t, "ValidationError", 0, 0)
          ELSE /\ LockFree(p, <<"withdrawal", id>>)
               /\ IF withdrawal = NoRow THEN Abort(p, t, "NotFoundError", 0, 0)
                  ELSE IF withdrawal.status # "processing"
                  THEN Abort(p, t, "InvalidStateError", 0, 0)
                  ELSE IF ~validate_withdrawal_status_transition(withdrawal.status,
                                                                 "completed")
                  THEN Abort(p, t, "PgError", 0, 0)
                  ELSE Continue(p, t, [pc |-> "commit", user |-> withdrawal.user_id,
                           amount |-> withdrawal.amount,
                           locks |-> {<<"withdrawal", id>>},
                           wWd |-> [withdrawal EXCEPT !.status = "completed",
                                                      !.transaction_hash = "hash"],
                           wLogs |-> <<LogRow("complete_withdrawal", "withdrawal", id)>>])

\* failWithdrawal passing the negated amount to createEntry, as processWithdrawal does
failWithdrawal_negated(p, id, adminId, reasonOk) ==
    /\ Starts(p)
    /\ LET t == Call("failWithdrawal", [id |-> id, admin |-> adminId])
           withdrawal == ViewWithdrawal(p, id)
       IN IF ~reasonOk THEN Abort(p, t, "ValidationError", 0, 0)
          ELSE /\ LockFree(p, <<"withdrawal", id>>)
               /\ IF withdrawal = NoRow THEN Abort(p, t, "NotFoundError", 0, 0)
                  ELSE IF withdrawal.status # "processing"
                  THEN Abort(p, t, "InvalidStateError", 0, 0)
                  ELSE Continue(p, t,
                           [pc |-> "ce_lock", ret |-> "fw_update",
                            user |-> withdrawal.user_id, amount |-> withdrawal.amount,
                            locks |-> {<<"withdrawal", id>>},
                            ceUser |-> withdrawal.user_id, ceType |-> "refund",
                            ceAmount |-> -withdrawal.amount, ceRefType |-> "withdrawal",
                            ceRefId |-> id])

\* failWithdrawal without its call of createEntry: no refund
failWithdrawal_norefund(p, id, adminId, reasonOk) ==
    /\ Starts(p)
    /\ LET t == Call("failWithdrawal", [id |-> id, admin |-> adminId])
           withdrawal == ViewWithdrawal(p, id)
       IN IF ~reasonOk THEN Abort(p, t, "ValidationError", 0, 0)
          ELSE /\ LockFree(p, <<"withdrawal", id>>)
               /\ IF withdrawal = NoRow THEN Abort(p, t, "NotFoundError", 0, 0)
                  ELSE IF withdrawal.status # "processing"
                  THEN Abort(p, t, "InvalidStateError", 0, 0)
                  ELSE Continue(p, t,
                           [pc |-> "fw_update",
                            user |-> withdrawal.user_id, amount |-> withdrawal.amount,
                            locks |-> {<<"withdrawal", id>>}])

\* failWithdrawal(withdrawalId, adminId, reason): reason check, BEGIN, lock,
\* state validation; createEntry is called with the amount
failWithdrawal(p, id, adminId, reasonOk) ==
    /\ Starts(p)
    /\ LET t == Call("failWithdrawal", [id |-> id, admin |-> adminId])
           withdrawal == ViewWithdrawal(p, id)
       IN IF ~reasonOk THEN Abort(p, t, "ValidationError", 0, 0)
          ELSE /\ LockFree(p, <<"withdrawal", id>>)
               /\ IF withdrawal = NoRow THEN Abort(p, t, "NotFoundError", 0, 0)
                  ELSE IF withdrawal.status # "processing"
                  THEN Abort(p, t, "InvalidStateError", 0, 0)
                  ELSE Continue(p, t,
                           [pc |-> "ce_lock", ret |-> "fw_update",
                            user |-> withdrawal.user_id, amount |-> withdrawal.amount,
                            locks |-> {<<"withdrawal", id>>},
                            ceUser |-> withdrawal.user_id, ceType |-> "refund",
                            ceAmount |-> withdrawal.amount, ceRefType |-> "withdrawal",
                            ceRefId |-> id])

\* failWithdrawal without its UPDATE of the status
failWithdrawal_update_processing(p) ==
    /\ At(p, "fw_update")
    /\ Continue(p, tx[p], [pc |-> "commit",
             wLogs |-> Append(tx[p].wLogs,
                          LogRow("fail_withdrawal", "withdrawal", tx[p].id))])

\* failWithdrawal: status failed, failure_reason, admin log
failWithdrawal_update(p) ==
    /\ At(p, "fw_update")
    /\ LET withdrawal == ViewWithdrawal(p, tx[p].id)
       IN IF ~validate_withdrawal_status_transition(withdrawal.status, "failed")
          THEN Abort(p, tx[p], "PgError", 0, 0)
          ELSE IF tx[p].admin # Admin      \* admin_logs.admin_id references users
          THEN Abort(p, tx[p], "PgError", 0, 0)
          ELSE Continue(p, tx[p], [pc |-> "commit",
                   wWd |-> [withdrawal EXCEPT !.status = "failed",
                                              !.failure_reason = "reason"],
                   wLogs |-> Append(tx[p].wLogs,
                                LogRow("fail_withdrawal", "withdrawal", tx[p].id))])

\* toggleUserBlock(userId, adminId, block): BEGIN, UPDATE users SET is_blocked
\* (the UPDATE takes the row lock of the user), admin log
toggleUserBlock(p, u, block) ==
    /\ Starts(p)
    /\ LockFree(p, <<"user", u>>)
    /\ Continue(p, Call("toggleUserBlock", [user |-> u]),
          [pc |-> "commit", locks |-> {<<"user", u>>},
           wBlock |-> IF block THEN "block" ELSE "unblock",
           wLogs |-> <<LogRow(IF block THEN "block_user" ELSE "unblock_user", "user", u)>>])

\* ======================================================= WithdrawalService
\* requestWithdrawal reading the user row without FOR UPDATE
requestWithdrawal_nolock(p, u, amount) ==
    /\ Starts(p)
    /\ LET t == Call("requestWithdrawal", [user |-> u, amount |-> amount])
           currentBalance == ViewBalance(p, u)
           count == Cardinality({i \in 1..Len(withdrawals) :
                        /\ withdrawals[i].user_id = u
                        /\ withdrawals[i].created_at > t.started - WEEK})
       IN IF is_blocked[u] THEN Abort(p, t, "ForbiddenError", 0, 0)
          ELSE IF currentBalance < amount
          THEN Abort(p, t, "InsufficientBalanceError", currentBalance, amount)
          ELSE IF count >= WITHDRAWALS_PER_WEEK THEN Abort(p, t, "RateLimitError", 0, 0)
          ELSE /\ Len(withdrawals)
                     + Cardinality({q \in Procs : tx[q].op = "requestWithdrawal"})
                     < MaxWithdrawals
               /\ Continue(p, t, [pc |-> "rw_insert", cur |-> currentBalance])

\* requestWithdrawal without its check of the blocked flag
requestWithdrawal_blocked(p, u, amount) ==
    /\ Starts(p)
    /\ LockFree(p, <<"user", u>>)
    /\ LET t == Call("requestWithdrawal", [user |-> u, amount |-> amount])
           currentBalance == ViewBalance(p, u)
           count == Cardinality({i \in 1..Len(withdrawals) :
                        /\ withdrawals[i].user_id = u
                        /\ withdrawals[i].created_at > t.started - WEEK})
       IN IF currentBalance < amount
          THEN Abort(p, t, "InsufficientBalanceError", currentBalance, amount)
          ELSE IF count >= WITHDRAWALS_PER_WEEK THEN Abort(p, t, "RateLimitError", 0, 0)
          ELSE /\ Len(withdrawals)
                     + Cardinality({q \in Procs : tx[q].op = "requestWithdrawal"})
                     < MaxWithdrawals
               /\ Continue(p, t, [pc |-> "rw_insert", cur |-> currentBalance,
                                    locks |-> {<<"user", u>>}])

\* requestWithdrawal counting, for the rate limit, only withdrawals that were
\* not cancelled and did not fail
requestWithdrawal_kept(p, u, amount) ==
    /\ Starts(p)
    /\ LockFree(p, <<"user", u>>)
    /\ LET t == Call("requestWithdrawal", [user |-> u, amount |-> amount])
           currentBalance == ViewBalance(p, u)
           count == Cardinality({i \in 1..Len(withdrawals) :
                        /\ withdrawals[i].user_id = u
                        /\ withdrawals[i].status \notin {"cancelled", "failed"}
                        /\ withdrawals[i].created_at > t.started - WEEK})
       IN IF is_blocked[u] THEN Abort(p, t, "ForbiddenError", 0, 0)
          ELSE IF currentBalance < amount
          THEN Abort(p, t, "InsufficientBalanceError", currentBalance, amount)
          ELSE IF count >= WITHDRAWALS_PER_WEEK THEN Abort(p, t, "RateLimitError", 0, 0)
          ELSE /\ Len(withdrawals)
                     + Cardinality({q \in Procs : tx[q].op = "requestWithdrawal"})
                     < MaxWithdrawals
               /\ Continue(p, t, [pc |-> "rw_insert", cur |-> currentBalance,
                                    locks |-> {<<"user", u>>}])

\* requestWithdrawal(userId, amount, method, paymentDetails): BEGIN, lock the
\* user row, blocked account, balance, withdrawals of the last 7 days
requestWithdrawal(p, u, amount) ==
    /\ Starts(p)
    /\ LockFree(p, <<"user", u>>)
    /\ LET t == Call("requestWithdrawal", [user |-> u, amount |-> amount])
           currentBalance == ViewBalance(p, u)
           count == Cardinality({i \in 1..Len(withdrawals) :
                        /\ withdrawals[i].user_id = u
                        /\ withdrawals[i].created_at > t.started - WEEK})
       IN IF is_blocked[u] THEN Abort(p, t, "ForbiddenError", 0, 0)
          ELSE IF currentBalance < amount
          THEN Abort(p, t, "InsufficientBalanceError", currentBalance, amount)
          ELSE IF count >= WITHDRAWALS_PER_WEEK THEN Abort(p, t, "RateLimitError", 0, 0)
          ELSE /\ Len(withdrawals)
                     + Cardinality({q \in Procs : tx[q].op = "requestWithdrawal"})
                     < MaxWithdrawals
               /\ Continue(p, t, [pc |-> "rw_insert", cur |-> currentBalance,
                                    locks |-> {<<"user", u>>}])

\* requestWithdrawal taking the amount off the balance with the INSERT
requestWithdrawal_insert_debit(p) ==
    /\ At(p, "rw_insert")
    /\ IF \E i \in 1..Len(withdrawals) :
             /\ withdrawals[i].user_id = tx[p].user
             /\ withdrawals[i].status \in {"pending", "processing"}
       THEN Abort(p, tx[p], "ValidationError", 0, 0)
       ELSE IF ~validate_withdrawal_amount(tx[p].amount, ViewBalance(p, tx[p].user))
       THEN Abort(p, tx[p], "PgError", 0, 0)
       ELSE Continue(p, tx[p], [pc |-> "commit",
                wBalUser |-> tx[p].user, wBal |-> tx[p].cur - tx[p].amount,
                newWd |-> <<[user_id |-> tx[p].user, amount |-> tx[p].amount,
                             status |-> "pending", transaction_hash |-> "",
                             failure_reason |-> "", processed_by |-> "",
                             created_at |-> tx[p].started]>>])


\* requestWithdrawal locking the pending and processing withdrawals of the user
\* (SELECT ... FOR UPDATE) after the user row
requestWithdrawal_insert_locking(p) ==
    /\ At(p, "rw_insert")
    /\ LET mine == {i \in 1..Len(withdrawals) :
                       /\ withdrawals[i].user_id = tx[p].user
                       /\ withdrawals[i].status \in {"pending", "processing"}}
       IN /\ \A i \in mine : LockFree(p, <<"withdrawal", i>>)
          /\ IF mine # {}
             THEN Abort(p, tx[p], "ValidationError", 0, 0)
             ELSE IF ~validate_withdrawal_amount(tx[p].amount, ViewBalance(p, tx[p].user))
             THEN Abort(p, tx[p], "PgError", 0, 0)
             ELSE Continue(p, tx[p], [pc |-> "commit",
                      newWd |-> <<[user_id |-> tx[p].user, amount |-> tx[p].amount,
                                   status |-> "pending", transaction_hash |-> "",
                                   failure_reason |-> "", processed_by |-> "",
                                   created_at |-> tx[p].started]>>])

\* requestWithdrawal without its check for a pending or processing withdrawal
requestWithdrawal_insert_unchecked(p) ==
    /\ At(p, "rw_insert")
    /\ IF ~validate_withdrawal_amount(tx[p].amount, ViewBalance(p, tx[p].user))
       THEN Abort(p, tx[p], "PgError", 0, 0)
       ELSE Continue(p, tx[p], [pc |-> "commit",
                newWd |-> <<[user_id |-> tx[p].user, amount |-> tx[p].amount,
                             status |-> "pending", transaction_hash |-> "",
                             failure_reason |-> "", processed_by |-> "",
                             created_at |-> tx[p].started]>>])

\* requestWithdrawal: a pending or processing withdrawal of the user, then the
\* INSERT of the pending row (trigger validate_amount_before_insert)
requestWithdrawal_insert(p) ==
    /\ At(p, "rw_insert")
    /\ IF \E i \in 1..Len(withdrawals) :
             /\ withdrawals[i].user_id = tx[p].user
             /\ withdrawals[i].status \in {"pending", "processing"}
       THEN Abort(p, tx[p], "ValidationError", 0, 0)
       ELSE IF ~validate_withdrawal_amount(tx[p].amount, ViewBalance(p, tx[p].user))
       THEN Abort(p, tx[p], "PgError", 0, 0)
       ELSE Continue(p, tx[p], [pc |-> "commit",
                newWd |-> <<[user_id |-> tx[p].user, amount |-> tx[p].amount,
                             status |-> "pending", transaction_hash |-> "",
                             failure_reason |-> "", processed_by |-> "",
                             created_at |-> tx[p].started]>>])


\* cancelWithdrawal reading the withdrawal without FOR UPDATE and writing the
\* status whatever another transaction made of it meanwhile
cancelWithdrawal_unlocked(p, id, u) ==
    /\ Starts(p)
    /\ LET t == Call("cancelWithdrawal", [id |-> id, user |-> u])
           withdrawal == ViewWithdrawal(p, id)
       IN IF withdrawal = NoRow THEN Abort(p, t, "NotFoundError", 0, 0)
          ELSE IF withdrawal.user_id # u THEN Abort(p, t, "ForbiddenError", 0, 0)
          ELSE IF withdrawal.status # "pending" THEN Abort(p, t, "ValidationError", 0, 0)
          ELSE Continue(p, t, [pc |-> "commit", amount |-> withdrawal.amount,
                   wWd |-> [withdrawal EXCEPT !.status = "cancelled"]])

\* cancelWithdrawal without its authorization check
cancelWithdrawal_anyone(p, id, u) ==
    /\ Starts(p)
    /\ LockFree(p, <<"withdrawal", id>>)
    /\ LET t == Call("cancelWithdrawal", [id |-> id, user |-> u])
           withdrawal == ViewWithdrawal(p, id)
       IN IF withdrawal = NoRow THEN Abort(p, t, "NotFoundError", 0, 0)
          ELSE IF withdrawal.status # "pending" THEN Abort(p, t, "ValidationError", 0, 0)
          ELSE IF ~validate_withdrawal_status_transition(withdrawal.status, "cancelled")
          THEN Abort(p, t, "PgError", 0, 0)
          ELSE Continue(p, t, [pc |-> "commit", amount |-> withdrawal.amount,
                   locks |-> {<<"withdrawal", id>>},
                   wWd |-> [withdrawal EXCEPT !.status = "cancelled"]])

\* cancelWithdrawal(withdrawalId, userId): BEGIN, lock, ownership, state
\* validation, status cancelled
cancelWithdrawal(p, id, u) ==
    /\ Starts(p)
    /\ LockFree(p, <<"withdrawal", id>>)
    /\ LET t == Call("cancelWithdrawal", [id |-> id, user |-> u])
           withdrawal == ViewWithdrawal(p, id)
       IN IF withdrawal = NoRow THEN Abort(p, t, "NotFoundError", 0, 0)
          ELSE IF withdrawal.user_id # u THEN Abort(p, t, "ForbiddenError", 0, 0)
          ELSE IF withdrawal.status # "pending" THEN Abort(p, t, "ValidationError", 0, 0)
          ELSE IF ~validate_withdrawal_status_transition(withdrawal.status, "cancelled")
          THEN Abort(p, t, "PgError", 0, 0)
          ELSE Continue(p, t, [pc |-> "commit", amount |-> withdrawal.amount,
                   locks |-> {<<"withdrawal", id>>},
                   wWd |-> [withdrawal EXCEPT !.status = "cancelled"]])

\* ================================================== direct SQL on the ledger
\* INSERT INTO wallet_ledger issued outside the service (autocommit) while no
\* service call is in flight; the trigger updates the balance or raises, and a
\* raise leaves both tables alone
InsertLedgerRow(u, amount) ==
    /\ \A p \in Procs : tx[p].pc = "idle"
    /\ nOps < MaxOps
    /\ nOps' = nOps + 1
    /\ LET trig == update_user_balance(balance[u], amount)
       IN /\ trig.ok
          /\ wallet_ledger' = Append(wallet_ledger,
                 [user_id |-> u, type |-> IF amount > 0 THEN "ad_payout" ELSE "withdrawal",
                  amount |-> amount, balance_after |-> NULL,
                  reference_type |-> "system", reference_id |-> 0])
          /\ balance' = [balance EXCEPT ![u] = trig.balance]
    /\ last' = NoRes
    /\ UNCHANGED <<now, lockStmt, engagementStmt, is_blocked, submissions, withdrawals, total_views,
                   admin_logs, ad_engagements, tx>>

\* UPDATE wallet_ledger SET amount = ... WHERE id = ... (autocommit), issued
\* while no service call is in flight
UpdateLedgerRow(i, amount) ==
    /\ \A p \in Procs : tx[p].pc = "idle"
    /\ i \in 1..Len(wallet_ledger)
    /\ wallet_ledger[i].amount # amount
    /\ last' = [NoRes EXCEPT !.op = "UPDATE wallet_ledger", !.id = i,
                   !.outcome = IF prevent_ledger_modification THEN "PgError" ELSE "ok"]
    /\ wallet_ledger' = IF prevent_ledger_modification THEN wallet_ledger
                        ELSE [wallet_ledger EXCEPT ![i].amount = amount]
    /\ UNCHANGED <<now, lockStmt, engagementStmt, balance, is_blocked, submissions, withdrawals,
                   total_views, admin_logs, ad_engagements, tx, nOps>>

\* DELETE FROM wallet_ledger WHERE id = ... (autocommit), issued while no
\* service call is in flight
DeleteLedgerRow(i) ==
    /\ \A p \in Procs : tx[p].pc = "idle"
    /\ i \in 1..Len(wallet_ledger)
    /\ last' = [NoRes EXCEPT !.op = "DELETE wallet_ledger", !.id = i,
                   !.outcome = IF prevent_ledger_modification THEN "PgError" ELSE "ok"]
    /\ wallet_ledger' = IF prevent_ledger_modification THEN wallet_ledger
                        ELSE SubSeq(wallet_ledger, 1, i - 1)
                                 \o SubSeq(wallet_ledger, i + 1, Len(wallet_ledger))
    /\ UNCHANGED <<now, lockStmt, engagementStmt, balance, is_blocked, submissions, withdrawals,
                   total_views, admin_logs, ad_engagements, tx, nOps>>

\* ================================================= direct SQL on the status
SubmissionStatuses == {"pending", "under_review", "approved", "rejected"}
WithdrawalStatuses == {"pending", "processing", "completed", "failed", "cancelled"}

\* UPDATE submissions SET status = ... WHERE id = ... (autocommit), issued while
\* no service call is in flight; the BEFORE UPDATE trigger lets it through or raises
UpdateSubmissionStatus(id, status) ==
    /\ \A p \in Procs : tx[p].pc = "idle"
    /\ nOps < MaxOps
    /\ nOps' = nOps + 1
    /\ id \in 1..Len(submissions)
    /\ LET passes == validate_submission_status_transition(submissions[id].status, status)
       IN /\ submissions' = IF passes THEN [submissions EXCEPT ![id].status = status]
                            ELSE submissions
          /\ last' = [NoRes EXCEPT !.op = "UPDATE submissions", !.id = id,
                         !.outcome = IF passes THEN "ok" ELSE "PgError"]
    /\ UNCHANGED <<now, lockStmt, engagementStmt, balance, is_blocked, wallet_ledger, withdrawals,
                   total_views, admin_logs, ad_engagements, tx>>

\* UPDATE withdrawals SET status = ... WHERE id = ... (autocommit), issued while
\* no service call is in flight; the BEFORE UPDATE trigger lets it through or raises
UpdateWithdrawalStatus(id, status) ==
    /\ \A p \in Procs : tx[p].pc = "idle"
    /\ nOps < MaxOps
    /\ nOps' = nOps + 1
    /\ id \in 1..Len(withdrawals)
    /\ LET passes == validate_withdrawal_status_transition(withdrawals[id].status, status)
       IN /\ withdrawals' = IF passes THEN [withdrawals EXCEPT ![id].status = status]
                            ELSE withdrawals
          /\ last' = [NoRes EXCEPT !.op = "UPDATE withdrawals", !.id = id,
                         !.outcome = IF passes THEN "ok" ELSE "PgError"]
    /\ UNCHANGED <<now, lockStmt, engagementStmt, balance, is_blocked, wallet_ledger, submissions,
                   total_views, admin_logs, ad_engagements, tx>>

\* the ids a call may name: those of the rows, and one id that names no row
SubmissionIds ==
    1..(IF Len(submissions) < MaxSubmissions THEN Len(submissions) + 1 ELSE MaxSubmissions)
WithdrawalIds ==
    1..(IF Len(withdrawals) < MaxWithdrawals THEN Len(withdrawals) + 1 ELSE MaxWithdrawals)

\* ------------------------------------------------------------- Next
Next ==
    \/ \E p \in Procs, u \in Users, amount \in EntryAmounts, throws \in BOOLEAN :
           createEntry(p, SystemEntry(u, amount), throws)
    \/ \E p \in Procs : createEntry_lock(p)
    \/ \E p \in Procs : createEntry_insert(p)
    \/ \E p \in Procs : Throw(p)
    \/ \E p \in Procs, u \in Members, a \in Ads : submitProof(p, u, a)
    \/ \E p \in Procs : submitProof_rate(p)
    \/ \E p \in Procs : submitProof_existing(p)
    \/ \E p \in Procs : submitProof_insert(p)
    \/ \E p \in Procs, id \in SubmissionIds : approveSubmission(p, id, Admin)
    \/ \E p \in Procs : approveSubmission_update(p)
    \/ \E p \in Procs, id \in SubmissionIds, reasonOk \in BOOLEAN :
           rejectSubmission(p, id, reasonOk)
    \/ \E p \in Procs : rejectSubmission_update(p)
    \/ \E p \in Procs, u \in Members, amount \in WithdrawalAmounts :
           requestWithdrawal(p, u, amount)
    \/ \E p \in Procs : requestWithdrawal_insert(p)
    \/ \E p \in Procs, id \in WithdrawalIds : processWithdrawal(p, id, Admin)
    \/ \E p \in Procs : processWithdrawal_update(p)
    \/ \E p \in Procs, id \in WithdrawalIds, hashOk \in BOOLEAN :
           completeWithdrawal(p, id, hashOk)
    \/ \E p \in Procs, id \in WithdrawalIds, reasonOk \in BOOLEAN :
           failWithdrawal(p, id, Admin, reasonOk)
    \/ \E p \in Procs : failWithdrawal_update(p)
    \/ \E p \in Procs, id \in WithdrawalIds, u \in Users : cancelWithdrawal(p, id, u)
    \/ \E p \in Procs : COMMIT(p)
    \/ \E u \in Users, amount \in EntryAmounts : InsertLedgerRow(u, amount)
    \/ \E i \in 1..MaxOps, amount \in EntryAmounts : UpdateLedgerRow(i, amount)
    \/ \E i \in 1..MaxOps : DeleteLedgerRow(i)

Spec == Init /\ [][Next]_vars

\* the services together with clients that update the status columns directly
NextSql ==
    \/ Next
    \/ \E id \in 1..MaxSubmissions, status \in SubmissionStatuses :
           UpdateSubmissionStatus(id, status)
    \/ \E id \in 1..MaxWithdrawals, status \in WithdrawalStatuses :
           UpdateWithdrawalStatus(id, status)

SpecSql == Init /\ [][NextSql]_vars

\* the services started on a database in which u1 holds a balance of 0.02 from
\* one earlier INSERT INTO wallet_ledger, the state InsertLedgerRow("u1", 2)
\* leaves behind, so that a run of MaxOps calls takes a withdrawal through its
\* whole life cycle and one call beyond
InitFunded ==
    /\ now = 0
    /\ lockStmt \in {"rejected", "accepted"}
    /\ engagementStmt \in {"rejected", "accepted"}
    /\ lockStmt = "accepted" => engagementStmt = "accepted"
    /\ wallet_ledger = <<[user_id |-> "u1", type |-> "ad_payout", amount |-> 2,
                          balance_after |-> NULL, reference_type |-> "system",
                          reference_id |-> 0]>>
    /\ balance = [u \in Users |-> update_user_balance(0, SumAmounts(
                      SelectSeq(wallet_ledger, LAMBDA e : e.user_id = u))).balance]
    /\ is_blocked = [u \in Users |-> FALSE]
    /\ submissions = <<>>
    /\ withdrawals = <<>>
    /\ total_views = [a \in Ads |-> 0]
    /\ admin_logs = <<>>
    /\ ad_engagements = {}
    /\ tx = [p \in Procs |-> IdleTx]
    /\ last = NoRes
    /\ nOps = 0

\* the calls of the withdrawal life cycle, with the statements they run
NextWithdrawal ==
    \/ \E p \in Procs, u \in Members, amount \in WithdrawalAmounts :
           requestWithdrawal(p, u, amount)
    \/ \E p \in Procs : requestWithdrawal_insert(p)
    \/ \E p \in Procs, id \in WithdrawalIds : processWithdrawal(p, id, Admin)
    \/ \E p \in Procs : createEntry_lock(p)
    \/ \E p \in Procs : createEntry_insert(p)
    \/ \E p \in Procs : processWithdrawal_update(p)
    \/ \E p \in Procs, id \in WithdrawalIds, hashOk \in BOOLEAN :
           completeWithdrawal(p, id, hashOk)
    \/ \E p \in Procs, id \in WithdrawalIds, reasonOk \in BOOLEAN :
           failWithdrawal(p, id, Admin, reasonOk)
    \/ \E p \in Procs : failWithdrawal_update(p)
    \/ \E p \in Procs, id \in WithdrawalIds, u \in Users : cancelWithdrawal(p, id, u)
    \/ \E p \in Procs : COMMIT(p)

SpecWithdrawal == InitFunded /\ [][NextWithdrawal]_vars

\* the calls a user makes, an administrator who blocks and unblocks users, and
\* credits and debits inserted into the ledger
NextUser ==
    \/ \E u \in Users, amount \in EntryAmounts : InsertLedgerRow(u, amount)
    \/ \E p \in Procs, u \in Users, block \in BOOLEAN : toggleUserBlock(p, u, block)
    \/ \E p \in Procs, u \in Members, a \in Ads : submitProof(p, u, a)
    \/ \E p \in Procs : submitProof_rate(p)
    \/ \E p \in Procs : submitProof_existing(p)
    \/ \E p \in Procs : submitProof_insert(p)
    \/ \E p \in Procs, u \in Members, amount \in WithdrawalAmounts :
           requestWithdrawal(p, u, amount)
    \/ \E p \in Procs : requestWithdrawal_insert(p)
    \/ \E p \in Procs, id \in WithdrawalIds, u \in Users : cancelWithdrawal(p, id, u)
    \/ \E p \in Procs : COMMIT(p)

SpecUser == Init /\ [][NextUser]_vars

\* the parameters callers pass to createEntry: those of a system entry, and
\* those with the user missing, a type or reference type that does not exist,
\* the amount zero, or the reference missing
EntryParams ==
    {SystemEntry(u, amount) : u \in Users, amount \in EntryAmounts}
    \cup {[SystemEntry("u1", 2) EXCEPT !.userId = ""],
          [SystemEntry("u1", 2) EXCEPT !.type = "invalid_type"],
          [SystemEntry("u1", 2) EXCEPT !.amount = 0],
          [SystemEntry("u1", 2) EXCEPT !.referenceType = "invalid_ref"],
          [SystemEntry("u1", 2) EXCEPT !.referenceId = NULL]}

\* callers of createEntry alone, with any parameters
NextLedger ==
    \/ \E p \in Procs, e \in EntryParams, throws \in BOOLEAN : createEntry(p, e, throws)
    \/ \E p \in Procs : createEntry_insert(p)
    \/ \E p \in Procs : Throw(p)
    \/ \E p \in Procs : COMMIT(p)

SpecLedger == Init /\ [][NextLedger]_vars

\* the calls of an admin that write the ledger, with the adminId of the admin
\* or one that no row of users has, on submissions and withdrawals of a user
\* funded by direct inserts
NextAdmin ==
    \/ \E u \in Members, amount \in EntryAmounts : InsertLedgerRow(u, amount)
    \/ \E p \in Procs, u \in Members, a \in Ads : submitProof(p, u, a)
    \/ \E p \in Procs : submitProof_rate(p)
    \/ \E p \in Procs : submitProof_existing(p)
    \/ \E p \in Procs : submitProof_insert(p)
    \/ \E p \in Procs, u \in Members, amount \in WithdrawalAmounts :
           requestWithdrawal(p, u, amount)
    \/ \E p \in Procs : requestWithdrawal_insert(p)
    \/ \E p \in Procs, id \in SubmissionIds, adminId \in AdminIds :
           approveSubmission(p, id, adminId)
    \/ \E p \in Procs : approveSubmission_update(p)
    \/ \E p \in Procs, id \in WithdrawalIds, adminId \in AdminIds :
           processWithdrawal(p, id, adminId)
    \/ \E p \in Procs : processWithdrawal_update(p)
    \/ \E p \in Procs, id \in WithdrawalIds, adminId \in AdminIds, reasonOk \in BOOLEAN :
           failWithdrawal(p, id, adminId, reasonOk)
    \/ \E p \in Procs : failWithdrawal_update(p)
    \/ \E p \in Procs : createEntry_lock(p)
    \/ \E p \in Procs : createEntry_insert(p)
    \/ \E p \in Procs : COMMIT(p)

SpecAdmin == Init /\ [][NextAdmin]_vars

\* a day passes
Tick ==
    /\ now < MaxDay
    /\ now' = now + 1
    /\ last' = NoRes
    /\ UNCHANGED <<lockStmt, engagementStmt, dbvars, tx, nOps>>

\* the withdrawals u1 requested and cancelled on the days of one week, oldest first
CancelledWithdrawal(day) ==
    [user_id |-> "u1", amount |-> 1, status |-> "cancelled", transaction_hash |-> "",
     failure_reason |-> "", processed_by |-> "", created_at |-> day]

\* the days of that week on which a withdrawal was requested: the first day,
\* one that leaves the window while the clock runs, and today
HistoryDays == {0, 2, WEEK}

Histories ==
    {<<>>}
    \cup {<<CancelledWithdrawal(a)>> : a \in HistoryDays}
    \cup {<<CancelledWithdrawal(a), CancelledWithdrawal(b)>> :
             a \in HistoryDays, b \in HistoryDays}
    \cup {<<CancelledWithdrawal(a), CancelledWithdrawal(b), CancelledWithdrawal(c)>> :
             a \in HistoryDays, b \in HistoryDays, c \in HistoryDays}

\* the database after a week in which u1, holding a balance of 0.02 from one
\* INSERT INTO wallet_ledger, requested and cancelled up to
\* WITHDRAWALS_PER_WEEK withdrawals
InitWeek ==
    /\ now = WEEK
    /\ lockStmt \in {"rejected", "accepted"}
    /\ engagementStmt \in {"rejected", "accepted"}
    /\ lockStmt = "accepted" => engagementStmt = "accepted"
    /\ wallet_ledger = <<[user_id |-> "u1", type |-> "ad_payout", amount |-> 2,
                          balance_after |-> NULL, reference_type |-> "system",
                          reference_id |-> 0]>>
    /\ balance = [u \in Users |-> update_user_balance(0, SumAmounts(
                      SelectSeq(wallet_ledger, LAMBDA e : e.user_id = u))).balance]
    /\ is_blocked = [u \in Users |-> FALSE]
    /\ submissions = <<>>
    /\ withdrawals \in {h \in Histories :
                           \A i, j \in 1..Len(h) : i < j => h[i].created_at <= h[j].created_at}
    /\ total_views = [a \in Ads |-> 0]
    /\ admin_logs = <<>>
    /\ ad_engagements = {}
    /\ tx = [p \in Procs |-> IdleTx]
    /\ last = NoRes
    /\ nOps = 0

\* requests and cancellations of withdrawals while the days pass
NextWeek ==
    \/ Tick
    \/ \E p \in Procs, u \in Members, amount \in WithdrawalAmounts :
           requestWithdrawal(p, u, amount)
    \/ \E p \in Procs : requestWithdrawal_insert(p)
    \/ \E p \in Procs, id \in WithdrawalIds, u \in Users : cancelWithdrawal(p, id, u)
    \/ \E p \in Procs : COMMIT(p)

SpecWeek == InitWeek /\ [][NextWeek]_vars

\* ------------------------------------------------------------- reviews
\* the services started on a database that holds one pending submission of
\* each user for the same ad, the rows createTestSubmission inserts
InitViews ==
    /\ now = 0
    /\ lockStmt \in {"rejected", "accepted"}
    /\ engagementStmt \in {"rejected", "accepted"}
    /\ lockStmt = "accepted" => engagementStmt = "accepted"
    /\ balance = [u \in Users |-> 0]
    /\ is_blocked = [u \in Users |-> FALSE]
    /\ wallet_ledger = <<>>
    /\ submissions = <<[user_id |-> "u1", ad_id |-> "a1", status |-> "pending",
                        rejection_reason |-> "", reviewed_by |-> "",
                        reviewed_at |-> NULL, created_at |-> 0],
                       [user_id |-> "u2", ad_id |-> "a1", status |-> "pending",
                        rejection_reason |-> "", reviewed_by |-> "",
                        reviewed_at |-> NULL, created_at |-> 0]>>
    /\ withdrawals = <<>>
    /\ total_views = [a \in Ads |-> 0]
    /\ admin_logs = <<>>
    /\ ad_engagements = {}
    /\ tx = [p \in Procs |-> IdleTx]
    /\ last = NoRes
    /\ nOps = 0

\* the calls of the reviewing administrator, with the statements they run
NextViews ==
    \/ \E p \in Procs, id \in SubmissionIds : approveSubmission(p, id, Admin)
    \/ \E p \in Procs : createEntry_lock(p)
    \/ \E p \in Procs : createEntry_insert(p)
    \/ \E p \in Procs : approveSubmission_update(p)
    \/ \E p \in Procs, id \in SubmissionIds, reasonOk \in BOOLEAN :
           rejectSubmission(p, id, reasonOk)
    \/ \E p \in Procs : rejectSubmission_update(p)
    \/ \E p \in Procs : COMMIT(p)

SpecViews == InitViews /\ [][NextViews]_vars

\* the calls through which a balance changes (approveSubmission,
\* processWithdrawal, failWithdrawal) and the calls that move submissions and
\* withdrawals between their states, on the pending submissions of InitViews
NextPayout ==
    \/ \E p \in Procs, id \in SubmissionIds : approveSubmission(p, id, Admin)
    \/ \E p \in Procs : createEntry_lock(p)
    \/ \E p \in Procs : createEntry_insert(p)
    \/ \E p \in Procs : approveSubmission_update(p)
    \/ \E p \in Procs, id \in SubmissionIds, reasonOk \in BOOLEAN :
           rejectSubmission(p, id, reasonOk)
    \/ \E p \in Procs : rejectSubmission_update(p)
    \/ \E p \in Procs, u \in Members, amount \in WithdrawalAmounts :
           requestWithdrawal(p, u, amount)
    \/ \E p \in Procs : requestWithdrawal_insert(p)
    \/ \E p \in Procs, id \in WithdrawalIds : processWithdrawal(p, id, Admin)
    \/ \E p \in Procs : processWithdrawal_update(p)
    \/ \E p \in Procs, id \in WithdrawalIds, hashOk \in BOOLEAN :
           completeWithdrawal(p, id, hashOk)
    \/ \E p \in Procs, id \in WithdrawalIds, reasonOk \in BOOLEAN :
           failWithdrawal(p, id, Admin, reasonOk)
    \/ \E p \in Procs : failWithdrawal_update(p)
    \/ \E p \in Procs, id \in WithdrawalIds, u \in Users : cancelWithdrawal(p, id, u)
    \/ \E p \in Procs : COMMIT(p)

SpecPayout == InitViews /\ [][NextPayout]_vars

\* ------------------------------------------------------------- scheduling
\* the core operations of the services, without clients that write the ledger
\* table directly
NextCore ==
    \/ \E p \in Procs, u \in Users, amount \in EntryAmounts, throws \in BOOLEAN :
           createEntry(p, SystemEntry(u, amount), throws)
    \/ \E p \in Procs : createEntry_lock(p)
    \/ \E p \in Procs : createEntry_insert(p)
    \/ \E p \in Procs : Throw(p)
    \/ \E p \in Procs, u \in Members, a \in Ads : submitProof(p, u, a)
    \/ \E p \in Procs : submitProof_rate(p)
    \/ \E p \in Procs : submitProof_existing(p)
    \/ \E p \in Procs : submitProof_insert(p)
    \/ \E p \in Procs, id \in SubmissionIds : approveSubmission(p, id, Admin)
    \/ \E p \in Procs : approveSubmission_update(p)
    \/ \E p \in Procs, id \in SubmissionIds, reasonOk \in BOOLEAN :
           rejectSubmission(p, id, reasonOk)
    \/ \E p \in Procs : rejectSubmission_update(p)
    \/ \E p \in Procs, u \in Members, amount \in WithdrawalAmounts :
           requestWithdrawal(p, u, amount)
    \/ \E p \in Procs : requestWithdrawal_insert(p)
    \/ \E p \in Procs, id \in WithdrawalIds : processWithdrawal(p, id, Admin)
    \/ \E p \in Procs : processWithdrawal_update(p)
    \/ \E p \in Procs, id \in WithdrawalIds, hashOk \in BOOLEAN :
           completeWithdrawal(p, id, hashOk)
    \/ \E p \in Procs, id \in WithdrawalIds, reasonOk \in BOOLEAN :
           failWithdrawal(p, id, Admin, reasonOk)
    \/ \E p \in Procs : failWithdrawal_update(p)
    \/ \E p \in Procs, id \in WithdrawalIds, u \in Users : cancelWithdrawal(p, id, u)
    \/ \E p \in Procs : COMMIT(p)

\* the next statement of the transaction that connection p has open: the
\* callback of db.transaction awaits one statement after the other, and a
\* statement that waits for a row lock proceeds once the lock is released
Runs(p) ==
    \/ createEntry_lock(p)
    \/ createEntry_insert(p)
    \/ Throw(p)
    \/ submitProof_rate(p)
    \/ submitProof_existing(p)
    \/ submitProof_insert(p)
    \/ approveSubmission_update(p)
    \/ rejectSubmission_update(p)
    \/ requestWithdrawal_insert(p)
    \/ processWithdrawal_update(p)
    \/ failWithdrawal_update(p)
    \/ COMMIT(p)

\* every open transaction is run to its end
SpecLive == Init /\ [][NextCore]_vars /\ \A p \in Procs : WF_vars(Runs(p))

ApproveExactlyOnce ==
    [][/\ (last'.op = "approveSubmission" /\ last'.id \in 1..Len(submissions)) =>
            LET s == submissions[last'.id]
            IN /\ s.status = "pending" =>
                     /\ last'.outcome = "ok"
                     /\ submissions'[last'.id].status = "approved"
                     /\ balance'[s.user_id] = balance[s.user_id] + payout_per_view[s.ad_id]
               /\ s.status = "approved" =>
                     /\ last'.outcome = "InvalidStateError"
                     /\ UNCHANGED dbvars
       /\ \A id \in 1..Len(submissions') :
             Cardinality({i \in 1..Len(wallet_ledger') :
                             /\ wallet_ledger'[i].type = "ad_payout"
                             /\ wallet_ledger'[i].reference_type = "submission"
                             /\ wallet_ledger'[i].reference_id = id})
                = IF submissions'[id].status = "approved" THEN 1 ELSE 0]_vars

\* C4: of the processWithdrawal calls on one withdrawal whose amount the balance
\* covers, the first to read it pending succeeds and debits the amount once, a
\* call that reads any other status fails with InvalidStateError and changes
\* nothing, and no withdrawal has more than one debit entry.
ProcessExactlyOnce ==
    [][/\ (last'.op = "processWithdrawal" /\ last'.id \in 1..Len(withdrawals)) =>
            LET w == withdrawals[last'.id]
            IN /\ (w.status = "pending" /\ balance[w.user_id] >= w.amount) =>
                     /\ last'.outcome = "ok"
                     /\ withdrawals'[last'.id].status = "processing"
                     /\ balance'[w.user_id] = balance[w.user_id] - w.amount
               /\ w.status # "pending" =>
                     /\ last'.outcome = "InvalidStateError"
                     /\ UNCHANGED dbvars
       /\ \A id \in 1..Len(withdrawals') :
             Cardinality({i \in 1..Len(wallet_ledger') :
                             /\ wallet_ledger'[i].type = "withdrawal"
                             /\ wallet_ledger'[i].reference_type = "withdrawal"
                             /\ wallet_ledger'[i].reference_id = id}) <= 1]_vars

NoLostUpdate ==
    [][last'.op = "createEntry" =>
          /\ last'.outcome = "ok" =>
                /\ Len(wallet_ledger') = Len(wallet_ledger) + 1
                /\ wallet_ledger'[Len(wallet_ledger')].user_id = last'.user
                /\ wallet_ledger'[Len(wallet_ledger')].amount = last'.amount
                /\ balance' = [balance EXCEPT ![last'.user] = @ + last'.amount]
          /\ last'.amount > 0 => last'.outcome \in {"ok", "Error"}]_vars

\* C8: createEntry with a negative amount that the balance does not cover
\* fails with InsufficientBalanceError carrying the balance as available and
\* the absolute amount as required, and leaves ledger and balances unchanged.
OverdraftRejected ==
    [][(/\ last'.op = "createEntry"
        /\ last'.amount < 0
        /\ balance[last'.user] + last'.amount < 0) =>
          /\ last'.outcome = "InsufficientBalanceError"
          /\ last'.available = balance[last'.user]
          /\ last'.required = -last'.amount
          /\ wallet_ledger' = wallet_ledger
          /\ balance' = balance]_vars

LedgerAppendOnly ==
    [][/\ Len(wallet_ledger') >= Len(wallet_ledger)
       /\ \A i \in 1..Len(wallet_ledger) : wallet_ledger'[i] = wallet_ledger[i]
       /\ last'.op \in {"UPDATE wallet_ledger", "DELETE wallet_ledger"} =>
             /\ last'.outcome = "PgError"
             /\ wallet_ledger' = wallet_ledger]_vars

\* an UPDATE of an entry has been refused
LedgerAppendOnly_witness ==
    /\ last.op = "UPDATE wallet_ledger"
    /\ last.outcome = "PgError"
    /\ Len(wallet_ledger) > 0

\* C11: every UPDATE of a submission's status, by a handler inside its
\* transaction or by a direct statement, goes pending -> under_review,
\* under_review -> approved or under_review -> rejected (never pending ->
\* approved or rejected); a committed change is such a step or the commit of such
\* steps; the row of an approved or rejected submission never changes.
SubmissionStep(old, new) ==
    \/ old = new
    \/ <<old, new>> \in {<<"pending", "under_review">>, <<"under_review", "approved">>,
                         <<"under_review", "rejected">>}

WithdrawalStep(old, new) ==
    \/ old = new
    \/ <<old, new>> \in {<<"pending", "processing">>, <<"pending", "cancelled">>,
                         <<"processing", "completed">>, <<"processing", "failed">>}

WithdrawalStatusMachine ==
    [][/\ Len(withdrawals') >= Len(withdrawals)
       /\ \A p \in Procs :
             (tx'[p].pc # "idle" /\ tx'[p].wWd # NoRow) =>
                WithdrawalStep(ViewWithdrawal(p, tx'[p].id).status, tx'[p].wWd.status)
       /\ \A id \in 1..Len(withdrawals) :
             /\ withdrawals[id].status \in {"completed", "failed", "cancelled"} =>
                   withdrawals'[id] = withdrawals[id]
             /\ WithdrawalStep(withdrawals[id].status, withdrawals'[id].status)]_vars

\* a direct UPDATE of a cancelled withdrawal has been refused
WithdrawalStatusMachine_witness ==
    /\ last.op = "UPDATE withdrawals"
    /\ last.outcome = "PgError"
    /\ withdrawals[last.id].status = "cancelled"

\* C13: in every committed state the ledger entries that reference a withdrawal
\* follow from its status: none when pending or cancelled; exactly one debit
\* (type withdrawal, amount = -withdrawal.amount) and no refund when processing
\* or completed; that debit and exactly one refund (type refund, amount =
\* +withdrawal.amount) when failed.
WithdrawalEntries(id) ==
    {i \in 1..Len(wallet_ledger) : /\ wallet_ledger[i].reference_type = "withdrawal"
                                   /\ wallet_ledger[i].reference_id = id}

PayoutEntries(id) ==
    {i \in 1..Len(wallet_ledger) : /\ wallet_ledger[i].type = "ad_payout"
                                   /\ wallet_ledger[i].reference_type = "submission"
                                   /\ wallet_ledger[i].reference_id = id}

RequestLeavesBalance ==
    [][/\ \A p \in Procs :
             (/\ tx'[p] # tx[p]
              /\ (tx[p].op = "requestWithdrawal" \/ tx'[p].op = "requestWithdrawal")) =>
                /\ balance' = balance
                /\ wallet_ledger' = wallet_ledger
                /\ (tx[p].pc = "commit" /\ tx'[p].pc = "idle") =>
                      /\ Len(withdrawals') = Len(withdrawals) + 1
                      /\ SubSeq(withdrawals', 1, Len(withdrawals)) = withdrawals
                      /\ withdrawals'[Len(withdrawals')].status = "pending"
                      /\ withdrawals'[Len(withdrawals')].user_id = tx[p].user
                      /\ withdrawals'[Len(withdrawals')].amount = tx[p].amount
                      /\ last'.outcome = "ok"
       /\ \A i \in (Len(wallet_ledger) + 1)..Len(wallet_ledger') :
             (wallet_ledger'[i].reference_type = "withdrawal"
                 /\ wallet_ledger'[i].amount < 0) =>
                /\ withdrawals[wallet_ledger'[i].reference_id].status = "pending"
                /\ withdrawals'[wallet_ledger'[i].reference_id].status = "processing"]_vars

\* requestWithdrawal has returned a pending withdrawal of a user with a balance
RequestLeavesBalance_witness ==
    /\ last.op = "requestWithdrawal"
    /\ last.outcome = "ok"
    /\ withdrawals[last.id].status = "pending"
    /\ balance[last.user] >= last.amount
    /\ balance[last.user] > 0

\* C17: whatever the interleaving of requestWithdrawal calls, a user never has
\* more than one withdrawal that is pending or processing; a requestWithdrawal
\* that ends while the user has one fails and adds no withdrawal.
ActiveWithdrawals(u) ==
    {i \in 1..Len(withdrawals) : /\ withdrawals[i].user_id = u
                                 /\ withdrawals[i].status \in {"pending", "processing"}}

OneActiveWithdrawal ==
    /\ [](\A u \in Users : Cardinality(ActiveWithdrawals(u)) <= 1)
    /\ [][\A p \in Procs :
             (/\ tx[p].op = "requestWithdrawal"
              /\ tx'[p].pc = "idle"
              /\ ActiveWithdrawals(tx[p].user) # {}) =>
                /\ last'.outcome \notin {"ok", "none"}
                /\ withdrawals' = withdrawals]_vars

\* a second request of a user with a pending withdrawal has been refused
OneActiveWithdrawal_witness ==
    /\ last.op = "requestWithdrawal"
    /\ last.outcome = "ValidationError"
    /\ ActiveWithdrawals(last.user) # {}

\* C18: cancelWithdrawal returns normally only for a withdrawal that the caller
\* owns and that is pending, and then the withdrawal is cancelled; for a
\* withdrawal of another user it fails with ForbiddenError; for a withdrawal in
\* any other status it fails; a failed call leaves table withdrawals unchanged.
CancelOnlyOwnPending ==
    [][(last'.op = "cancelWithdrawal" /\ last'.id \in 1..Len(withdrawals)) =>
          LET withdrawal == withdrawals[last'.id]
          IN /\ last'.outcome = "ok" =>
                   /\ withdrawal.user_id = last'.user
                   /\ withdrawal.status = "pending"
                   /\ withdrawals' = [withdrawals EXCEPT ![last'.id].status = "cancelled"]
             /\ withdrawal.user_id # last'.user => last'.outcome = "ForbiddenError"
             /\ withdrawal.status # "pending" => last'.outcome \notin {"ok", "none"}
             /\ last'.outcome # "ok" => withdrawals' = withdrawals]_vars

\* another user's call on a pending withdrawal has been refused
CancelOnlyOwnPending_witness ==
    /\ last.op = "cancelWithdrawal"
    /\ last.outcome = "ForbiddenError"
    /\ last.id \in 1..Len(withdrawals)
    /\ withdrawals[last.id].status = "pending"
    /\ withdrawals[last.id].user_id # last.user

\* C19: no step of completeWithdrawal, cancelWithdrawal or rejectSubmission,
\* whether the call ends normally or with an error, adds a ledger entry or
\* changes a balance.
NoLedgerEffectOps == {"completeWithdrawal", "cancelWithdrawal", "rejectSubmission"}

Refunds(id) ==
    {i \in WithdrawalEntries(id) : wallet_ledger[i].type = "refund"}

EntriesUpTo(u, i) ==
    SelectSeq(SubSeq(wallet_ledger, 1, i), LAMBDA e : e.user_id = u)

SubmissionsOf(u, a) ==
    {i \in 1..Len(submissions) : submissions[i].user_id = u /\ submissions[i].ad_id = a}

OneOfConcurrentSubmits ==
    /\ [](\A u \in Users, a \in Ads : Cardinality(SubmissionsOf(u, a)) <= 1)
    /\ [][\A p \in Procs :
             (/\ tx[p].op = "submitProof"
              /\ tx'[p].pc = "idle"
              /\ SubmissionsOf(tx[p].user, tx[p].ad) = {}
              /\ \A q \in Procs \ {p} :
                    ~(tx[q].op = "submitProof" /\ tx[q].user = tx[p].user
                         /\ tx[q].ad = tx[p].ad)) =>
                last'.outcome = "ok"]_vars

\* C23: a submitProof call of a user who has a pending or under_review
\* submission for the same ad, created less than a day before the call, ends
\* with ConflictError and adds no submission.
DuplicateIsConflict ==
    [][\A p \in Procs :
          (/\ tx[p].op = "submitProof"
           /\ tx'[p].pc = "idle"
           /\ \E i \in SubmissionsOf(tx[p].user, tx[p].ad) :
                 /\ submissions[i].status \in {"pending", "under_review"}
                 /\ submissions[i].created_at > tx[p].started - DAY) =>
             /\ last'.outcome = "ConflictError"
             /\ submissions' = submissions]_vars

\* C24: a submitProof call that ends while the blocked flag of its user is set
\* ends with ForbiddenError and adds no submission.
BlockedCannotSubmit ==
    [][\A p \in Procs :
          (/\ tx[p].op = "submitProof"
           /\ tx'[p].pc = "idle"
           /\ is_blocked[tx[p].user]) =>
             /\ last'.outcome = "ForbiddenError"
             /\ submissions' = submissions]_vars

\* C25: a requestWithdrawal call of a blocked user ends with ForbiddenError; of a
\* user who is not blocked and whose balance is below the amount, with
\* InsufficientBalanceError carrying the balance and the amount; the failed call
\* leaves every table unchanged.
RequestRefused ==
    [][(last'.op = "requestWithdrawal" /\ last'.user \in Users) =>
          /\ is_blocked[last'.user] => last'.outcome = "ForbiddenError"
          /\ (~is_blocked[last'.user] /\ balance[last'.user] < last'.amount) =>
                /\ last'.outcome = "InsufficientBalanceError"
                /\ last'.available = balance[last'.user]
                /\ last'.required = last'.amount
          /\ last'.outcome # "ok" => UNCHANGED dbvars]_vars

\* the request of a blocked user who holds the amount has been refused
RequestRefused_witness ==
    /\ last.op = "requestWithdrawal"
    /\ last.outcome = "ForbiddenError"
    /\ is_blocked[last.user]
    /\ balance[last.user] >= last.amount
    /\ withdrawals = <<>>

\* C26: for every user, no window of 7 days holds more than
\* WITHDRAWALS_PER_WEEK withdrawals, whatever their status; a requestWithdrawal
\* call of a user who is not blocked, holds the amount and has that many
\* withdrawals younger than 7 days ends with RateLimitError and leaves every
\* table unchanged.
WithdrawalsSince(u, day) ==
    {i \in 1..Len(withdrawals) : /\ withdrawals[i].user_id = u
                                 /\ withdrawals[i].created_at > day}

WeeklyLimit ==
    /\ [](\A i \in 1..Len(withdrawals) :
             Cardinality({j \in WithdrawalsSince(withdrawals[i].user_id,
                                                 withdrawals[i].created_at - WEEK) :
                             withdrawals[j].created_at <= withdrawals[i].created_at})
                <= WITHDRAWALS_PER_WEEK)
    /\ [][\A p \in Procs, u \in Members, amount \in WithdrawalAmounts :
             (/\ requestWithdrawal(p, u, amount)
              /\ ~is_blocked[u]
              /\ balance[u] >= amount
              /\ Cardinality(WithdrawalsSince(u, now - WEEK)) >= WITHDRAWALS_PER_WEEK) =>
                /\ last'.op = "requestWithdrawal"
                /\ last'.outcome = "RateLimitError"
                /\ UNCHANGED dbvars]_vars

\* a request has been refused within the week of three cancelled withdrawals,
\* one of them requested after an older one had left the window
WeeklyLimit_witness ==
    /\ last.op = "requestWithdrawal"
    /\ last.outcome = "RateLimitError"
    /\ Cardinality(WithdrawalsSince(last.user, now - WEEK)) = WITHDRAWALS_PER_WEEK
    /\ Len(withdrawals) > WITHDRAWALS_PER_WEEK
    /\ \A i \in WithdrawalsSince(last.user, now - WEEK) : withdrawals[i].status = "cancelled"
    /\ balance[last.user] >= last.amount

AtomicAdminOps == {"approveSubmission", "processWithdrawal", "failWithdrawal"}

InCreateEntry(p) == tx[p].pc = "ce_insert" /\ <<"user", tx[p].ceUser>> \in tx[p].locks

\* connection q is free to begin a call
CanStart(q) ==
    /\ tx[q].pc = "idle"
    /\ \A r \in Procs : r < q => tx[r].pc # "idle"
    /\ nOps < MaxOps

LoggedOps ==
    {"approveSubmission", "rejectSubmission", "processWithdrawal", "completeWithdrawal",
     "failWithdrawal"}

AdminLogOf(op, id) ==
    LogRow(CASE op = "approveSubmission" -> "approve_submission"
             [] op = "rejectSubmission" -> "reject_submission"
             [] op = "processWithdrawal" -> "process_withdrawal"
             [] op = "completeWithdrawal" -> "complete_withdrawal"
             [] op = "failWithdrawal" -> "fail_withdrawal",
           IF op \in {"approveSubmission", "rejectSubmission"} THEN "submission"
           ELSE "withdrawal",
           id)

OperationalErrors ==
    {"ValidationError", "NotFoundError", "InsufficientBalanceError", "InvalidStateError",
     "ForbiddenError", "RateLimitError", "ConflictError", "LedgerMismatchError"}

CoreOps ==
    {"createEntry", "submitProof", "approveSubmission", "rejectSubmission",
     "requestWithdrawal", "cancelWithdrawal", "processWithdrawal", "completeWithdrawal",
     "failWithdrawal", "toggleUserBlock"}

FailuresAreTyped ==
    [][(last'.op \in CoreOps /\ last'.outcome \notin {"ok", "Error"}) =>
          last'.outcome \in OperationalErrors \cup {"DatabaseError"}]_vars

ApproveOrRejectWins ==
    /\ [][(/\ last'.op \in {"approveSubmission", "rejectSubmission"}
           /\ last'.id \in 1..Len(submissions)
           /\ last'.outcome # "ValidationError") =>
             LET s == submissions[last'.id]
             IN /\ s.status = "pending" =>
                      /\ last'.outcome = "ok"
                      /\ submissions'[last'.id].status =
                            IF last'.op = "approveSubmission" THEN "approved" ELSE "rejected"
                      /\ last'.op = "rejectSubmission" =>
                            /\ wallet_ledger' = wallet_ledger
                            /\ balance' = balance
                /\ s.status \in {"approved", "rejected"} =>
                      /\ last'.outcome = "InvalidStateError"
                      /\ UNCHANGED dbvars]_vars
    /\ [](\A id \in 1..Len(submissions) :
             submissions[id].status = "rejected" => PayoutEntries(id) = {})

\* C35: on one withdrawal, a cancelWithdrawal call of the owner that reads it
\* pending succeeds and leaves it cancelled with the ledger unchanged, and one
\* that reads any other status fails and changes nothing; a processWithdrawal
\* call succeeds only if it reads it pending, and then leaves it processing
\* with one debit appended, and otherwise changes nothing, failing with
\* InvalidStateError when the status is not pending.  So of the two calls
\* started together on a pending withdrawal exactly one succeeds, and no
\* withdrawal is both cancelled and debited.
CancelOrProcessWins ==
    /\ [][/\ (/\ last'.op = "cancelWithdrawal"
              /\ last'.id \in 1..Len(withdrawals)
              /\ withdrawals[last'.id].user_id = last'.user) =>
                IF withdrawals[last'.id].status = "pending"
                THEN /\ last'.outcome = "ok"
                     /\ withdrawals'[last'.id].status = "cancelled"
                     /\ wallet_ledger' = wallet_ledger
                     /\ balance' = balance
                ELSE /\ last'.outcome # "ok"
                     /\ UNCHANGED dbvars
          /\ (last'.op = "processWithdrawal" /\ last'.id \in 1..Len(withdrawals)) =>
                LET w == withdrawals[last'.id]
                IN /\ last'.outcome = "ok" =>
                         /\ w.status = "pending"
                         /\ withdrawals'[last'.id].status = "processing"
                         /\ Len(wallet_ledger') = Len(wallet_ledger) + 1
                         /\ wallet_ledger'[Len(wallet_ledger')].amount = -w.amount
                         /\ wallet_ledger'[Len(wallet_ledger')].reference_id = last'.id
                   /\ w.status # "pending" => last'.outcome = "InvalidStateError"
                   /\ last'.outcome # "ok" => UNCHANGED dbvars]_vars
    /\ [](\A id \in 1..Len(withdrawals) :
             /\ withdrawals[id].status = "cancelled" => WithdrawalEntries(id) = {}
             /\ withdrawals[id].status = "processing" =>
                   Cardinality(WithdrawalEntries(id)) = 1)

\* the owner's cancellation won: processWithdrawal found the withdrawal
\* cancelled and failed, and the withdrawal has no ledger entry
CancelOrProcessWins_witness ==
    /\ last.op = "processWithdrawal"
    /\ last.outcome = "InvalidStateError"
    /\ withdrawals[last.id].status = "cancelled"
    /\ WithdrawalEntries(last.id) = {}

Busy(p) == tx[p].pc # "idle"

BalanceReadIsCurrent ==
    /\ [](\A p \in Procs :
             tx[p].pc = "ce_insert" => tx[p].cur = ViewBalance(p, tx[p].ceUser))
    /\ [][/\ last'.outcome # "LedgerMismatchError"
          /\ \A p \in Procs :
                (tx[p].pc = "ce_insert" /\ tx'[p] # tx[p]) => tx'[p].pc = tx[p].ret
          /\ \A p \in Procs :
                (/\ tx[p].pc = "ce_lock" /\ tx'[p] # tx[p]
                 /\ tx[p].ceAmount < 0
                 /\ ViewBalance(p, tx[p].ceUser) + tx[p].ceAmount < 0)
                => last'.outcome = "InsufficientBalanceError"
          /\ (/\ last'.op = "createEntry"
              /\ last'.amount < 0
              /\ balance[last'.user] + last'.amount < 0)
             => last'.outcome = "InsufficientBalanceError"]_vars

\* C39: in every committed state the total_views of an ad is its initial value
\* (0) plus the number of approved submissions for the ad; the counter changes
\* only in the commit of an approveSubmission, which adds one to the ad of the
\* approved submission.
ApprovedOf(a) ==
    {i \in 1..Len(submissions) :
        submissions[i].ad_id = a /\ submissions[i].status = "approved"}

PayoutsOf(u) ==
    SelectSeq(wallet_ledger, LAMBDA e :
        /\ e.user_id = u
        /\ e.type = "ad_payout"
        /\ e.reference_type = "submission"
        /\ e.reference_id \in 1..Len(submissions)
        /\ submissions[e.reference_id].user_id = u
        /\ submissions[e.reference_id].status = "approved")

PaidOutOf(u) ==
    SelectSeq(withdrawals, LAMBDA w :
        w.user_id = u /\ w.status \in {"processing", "completed"})

====
